---- MODULE Spec2Model ----
(***************************************************************************)
(* Frame pipeline of src/python.py: the capture thread (capture_frames),   *)
(* the detection thread (process_frames) and one generator per streaming   *)
(* client (generate_frames), coordinating through frame_queue              *)
(* (queue.Queue(maxsize=1)), processed_frame and one threading.Lock.       *)
(***************************************************************************)
EXTENDS Integers, Sequences, FiniteSets, TLC

\* ---------------------------------------------------------------- bounds
\* Number of frames the camera can deliver before every further read fails.
MaxFrames == 3
\* Number of failed open attempts the camera can produce in total.
MaxRetries == 2
\* The streaming clients (one generate_frames generator each).
Clients == {"c1", "c2"}

\* ------------------------------------------------------------ data model
\* queue.Queue(maxsize=1)
QueueMaxSize == 1

\* A frame is a pixel buffer, identified here by its capture number; boxes
\* tells whether result.plot() has drawn the detections on it.
RawFrame(n) == [id |-> n, boxes |-> FALSE]

\* Python's None for a frame-valued variable.
None == [id |-> 0, boxes |-> FALSE]

\* A local that has not been assigned yet (buffer before the first encode).
Unset == <<"unset", 0, FALSE>>

\* results = model(frame); for result in results: frame = result.plot()
Plot(f) == [id |-> f.id, boxes |-> TRUE]

\* frame.copy(): a new buffer with the same pixels.
Copy(f) == [id |-> f.id, boxes |-> f.boxes]

\* cv2.imencode('.jpg', frame): the JPEG bytes of the frame.
Encode(f) == <<"jpg", f.id, f.boxes>>

\* One part of the multipart stream: boundary, header, JPEG bytes.
Chunk(buf) == [boundary |-> "--frame", ctype |-> "image/jpeg", body |-> buf]

\* What a client has received before the first chunk is yielded to it.
NoChunk == [boundary |-> "", ctype |-> "", body |-> Unset]

\* queue.Queue operations (called with the caller holding `lock`).
QEmpty(q) == Len(q) = 0
QCanPut(q) == Len(q) < QueueMaxSize
QPut(q, f) == Append(q, f)
QFront(q) == Head(q)
QAfterGet(q) == Tail(q)

VARIABLES
    frame_queue,      \* contents of frame_queue, oldest first
    processed_frame,  \* the global processed_frame (None before the first publish)
    lock,             \* holder of `lock`, or "free"
    capPc,            \* position of capture_frames
    cap,              \* state of the VideoCapture object bound to `cap`
    retries,          \* capture_frames' local `retries`
    cframe,           \* capture_frames' local `frame`
    detPc,            \* position of process_frames
    dframe,           \* process_frames' local `frame`
    cpc,              \* position of each client's generate_frames
    buffer,           \* each generator's local `buffer`
    camFrames,        \* camera: number of frames it delivers before every read fails
    delivered,        \* camera: number of frames handed out by cap.read() so far
    opens,            \* history: open attempts since the last (re)start of connecting
    fails,            \* history: failed open attempts since then
    sleeps,           \* history: completed time.sleep(2) calls since then
    lastPut,          \* history: id of the frame written last into frame_queue
    taken,            \* history: ids of the frames frame_queue.get() returned to the detector
    published,        \* history: frames assigned to processed_frame, in order
    peeks,            \* history: <<client, frame>> for each read of processed_frame since the last publish
    sent              \* history: the chunk yielded last to each client (NoChunk: none yet)

vars == <<frame_queue, processed_frame, lock, capPc, cap, retries, cframe,
          detPc, dframe, cpc, buffer, camFrames, delivered, opens, fails, sleeps,
          lastPut, taken, published, peeks, sent>>

captureVars == <<capPc, cap, retries, cframe, camFrames, delivered, opens, fails, sleeps>>
detectVars == <<detPc, dframe>>
clientVars == <<cpc, buffer, sent>>
histVars == <<lastPut, taken, published, peeks>>

\* The module-level state after import and the locals of the two threads
\* started at lines 72-73.
InitProgram ==
    /\ frame_queue = <<>>
    /\ processed_frame = None
    /\ lock = "free"
    /\ capPc = "open"
    /\ cap = "none"
    /\ retries = 0
    /\ cframe = None
    /\ detPc = "acquire"
    /\ dframe = None
    /\ cpc = [c \in Clients |-> "idle"]
    /\ buffer = [c \in Clients |-> Unset]
    /\ delivered = 0
    /\ opens = 0
    /\ fails = 0
    /\ sleeps = 0
    /\ lastPut = 0
    /\ taken = <<>>
    /\ published = <<>>
    /\ peeks = {}
    /\ sent = [c \in Clients |-> NoChunk]

\* A camera that delivers MaxFrames frames.
Init == InitProgram /\ camFrames = MaxFrames

\* A camera that delivers a single frame.
InitOneFrame == InitProgram /\ camFrames = 1

\* ------------------------------------------------------------ the lock
\* Mutant of Acquire: entering does not wait for the lock to be free.
AcquireNoWait(who) == lock' = who

\* lock.acquire() / lock.release(), as the with statement calls them
Acquire(who) == lock = "free" /\ lock' = who
Release(who) == lock = who /\ lock' = "free"

\* -------------------------------------------------------- capture_frames
\* cap = cv2.VideoCapture(url); cap.isOpened() is True; cap.set(...)
CaptureOpenOk ==
    /\ capPc = "open"
    /\ cap' = "opened"
    /\ opens' = opens + 1
    /\ capPc' = "read"
    /\ UNCHANGED <<camFrames, retries, cframe, delivered, fails, sleeps>>
    /\ UNCHANGED <<frame_queue, processed_frame, lock, detectVars, clientVars, histVars>>

\* Mutant of CaptureOpenFail: the failed attempt is retried at once, without
\* the time.sleep(2).
CaptureOpenFailNoSleep ==
    /\ capPc = "open"
    /\ retries < MaxRetries
    /\ cap' = "failed"
    /\ opens' = opens + 1
    /\ fails' = fails + 1
    /\ retries' = retries + 1
    /\ capPc' = "open"
    /\ UNCHANGED <<camFrames, cframe, delivered, sleeps>>
    /\ UNCHANGED <<frame_queue, processed_frame, lock, detectVars, clientVars, histVars>>

\* cap = cv2.VideoCapture(url); cap.isOpened() is False; retries += 1
\* (print(...) has no effect on the state)
CaptureOpenFail ==
    /\ capPc = "open"
    /\ retries < MaxRetries
    /\ cap' = "failed"
    /\ opens' = opens + 1
    /\ fails' = fails + 1
    /\ retries' = retries + 1
    /\ capPc' = "sleep"
    /\ UNCHANGED <<camFrames, cframe, delivered, sleeps>>
    /\ UNCHANGED <<frame_queue, processed_frame, lock, detectVars, clientVars, histVars>>

\* time.sleep(2); continue
CaptureSleep ==
    /\ capPc = "sleep"
    /\ sleeps' = sleeps + 1
    /\ capPc' = "open"
    /\ UNCHANGED <<camFrames, cap, retries, cframe, delivered, opens, fails>>
    /\ UNCHANGED <<frame_queue, processed_frame, lock, detectVars, clientVars, histVars>>

\* success, frame = cap.read() with success True
CaptureReadOk ==
    /\ capPc = "read"
    /\ delivered < camFrames
    /\ delivered' = delivered + 1
    /\ cframe' = RawFrame(delivered + 1)
    /\ capPc' = "acquire"
    /\ UNCHANGED <<camFrames, cap, retries, opens, fails, sleeps>>
    /\ UNCHANGED <<frame_queue, processed_frame, lock, detectVars, clientVars, histVars>>

\* success, frame = cap.read() with success False (frame is None)
CaptureReadFail ==
    /\ capPc = "read"
    /\ cframe' = None
    /\ capPc' = "release"
    /\ UNCHANGED <<camFrames, cap, retries, delivered, opens, fails, sleeps>>
    /\ UNCHANGED <<frame_queue, processed_frame, lock, detectVars, clientVars, histVars>>

\* Mutant of CaptureRelease: `continue` in place of `break`, the inner loop
\* goes on reading from the released connection.
CaptureReleaseContinue ==
    /\ capPc = "release"
    /\ cap' = "released"
    /\ opens' = 0
    /\ fails' = 0
    /\ sleeps' = 0
    /\ capPc' = "read"
    /\ UNCHANGED <<camFrames, retries, cframe, delivered>>
    /\ UNCHANGED <<frame_queue, processed_frame, lock, detectVars, clientVars, histVars>>

\* cap.release(); break  -- back to the top of the outer loop
CaptureRelease ==
    /\ capPc = "release"
    /\ cap' = "released"
    /\ opens' = 0
    /\ fails' = 0
    /\ sleeps' = 0
    /\ capPc' = "open"
    /\ UNCHANGED <<camFrames, retries, cframe, delivered>>
    /\ UNCHANGED <<frame_queue, processed_frame, lock, detectVars, clientVars, histVars>>

\* with lock:   (entering)
CaptureAcquire ==
    /\ capPc = "acquire"
    /\ Acquire("capture")
    /\ capPc' = "put"
    /\ UNCHANGED <<camFrames, cap, retries, cframe, delivered, opens, fails, sleeps>>
    /\ UNCHANGED <<frame_queue, processed_frame, detectVars, clientVars, histVars>>

\* Mutant of CapturePut: the old frame is not removed before the put (and the
\* queue is not bounded), so frames pile up behind the oldest one.
CapturePutNoDiscard ==
    /\ capPc = "put"
    /\ frame_queue' = QPut(frame_queue, cframe)
    /\ lastPut' = cframe.id
    /\ Release("capture")
    /\ capPc' = "read"
    /\ UNCHANGED <<camFrames, cap, retries, cframe, delivered, opens, fails, sleeps>>
    /\ UNCHANGED <<processed_frame, detectVars, clientVars, taken, published, peeks>>

\* Mutant of CapturePut: the old frame is not removed, so the put blocks on
\* the full queue with the lock held.
CapturePutBlocking ==
    /\ capPc = "put"
    /\ QCanPut(frame_queue)
    /\ frame_queue' = QPut(frame_queue, cframe)
    /\ lastPut' = cframe.id
    /\ Release("capture")
    /\ capPc' = "read"
    /\ UNCHANGED <<camFrames, cap, retries, cframe, delivered, opens, fails, sleeps>>
    /\ UNCHANGED <<processed_frame, detectVars, clientVars, taken, published, peeks>>

\* if not frame_queue.empty(): frame_queue.get()
\* frame_queue.put(frame)      -- put blocks while the queue is full
\* then the with block's exit releases the lock; back to cap.read()
CapturePut ==
    /\ capPc = "put"
    /\ LET q == IF ~QEmpty(frame_queue) THEN QAfterGet(frame_queue) ELSE frame_queue
       IN  /\ QCanPut(q)
           /\ frame_queue' = QPut(q, cframe)
    /\ lastPut' = cframe.id
    /\ Release("capture")
    /\ capPc' = "read"
    /\ UNCHANGED <<camFrames, cap, retries, cframe, delivered, opens, fails, sleeps>>
    /\ UNCHANGED <<processed_frame, detectVars, clientVars, taken, published, peeks>>


Capture ==
    \/ CaptureOpenOk
    \/ CaptureOpenFail
    \/ CaptureSleep
    \/ CaptureReadOk
    \/ CaptureReadFail
    \/ CaptureRelease
    \/ CaptureAcquire
    \/ CapturePut

\* -------------------------------------------------------- process_frames
\* with lock:   (entering, line 55)
DetectAcquire ==
    /\ detPc = "acquire"
    /\ Acquire("detect")
    /\ detPc' = "check"
    /\ UNCHANGED <<dframe>>
    /\ UNCHANGED <<frame_queue, processed_frame, captureVars, clientVars, histVars>>

\* Mutant of DetectEmpty: the empty path goes back to polling without
\* releasing the lock.
DetectEmptyKeepsLock ==
    /\ detPc = "check"
    /\ lock = "detect"
    /\ QEmpty(frame_queue)
    /\ detPc' = "acquire"
    /\ UNCHANGED <<dframe>>
    /\ UNCHANGED <<frame_queue, processed_frame, lock, captureVars, clientVars, histVars>>

\* if frame_queue.empty(): continue
\* -- `continue` leaves the with block, which releases the lock
DetectEmpty ==
    /\ detPc = "check"
    /\ QEmpty(frame_queue)
    /\ Release("detect")
    /\ detPc' = "acquire"
    /\ UNCHANGED <<dframe>>
    /\ UNCHANGED <<frame_queue, processed_frame, captureVars, clientVars, histVars>>

\* Mutant of DetectTake: the frame is read but left in the queue.
DetectTakePeek ==
    /\ detPc = "check"
    /\ ~QEmpty(frame_queue)
    /\ dframe' = QFront(frame_queue)
    /\ frame_queue' = frame_queue
    /\ taken' = Append(taken, QFront(frame_queue).id)
    /\ Release("detect")
    /\ detPc' = "infer"
    /\ UNCHANGED <<processed_frame, captureVars, clientVars, lastPut, published, peeks>>

\* frame = frame_queue.get(); then the with block's exit releases the lock
DetectTake ==
    /\ detPc = "check"
    /\ ~QEmpty(frame_queue)
    /\ dframe' = QFront(frame_queue)
    /\ frame_queue' = QAfterGet(frame_queue)
    /\ taken' = Append(taken, QFront(frame_queue).id)
    /\ Release("detect")
    /\ detPc' = "infer"
    /\ UNCHANGED <<processed_frame, captureVars, clientVars, lastPut, published, peeks>>

\* results = model(frame); for result in results: frame = result.plot()
DetectInferOk ==
    /\ detPc = "infer"
    /\ dframe' = Plot(dframe)
    /\ detPc' = "acquire_pub"
    /\ UNCHANGED <<frame_queue, processed_frame, lock, captureVars, clientVars, histVars>>

\* model(frame) raises: nothing in process_frames catches it, the thread ends
DetectInferRaise ==
    /\ detPc = "infer"
    /\ detPc' = "terminated"
    /\ UNCHANGED <<dframe>>
    /\ UNCHANGED <<frame_queue, processed_frame, lock, captureVars, clientVars, histVars>>

\* with lock:   (entering, line 68)
DetectAcquirePub ==
    /\ detPc = "acquire_pub"
    /\ Acquire("detect")
    /\ detPc' = "publish"
    /\ UNCHANGED <<dframe>>
    /\ UNCHANGED <<frame_queue, processed_frame, captureVars, clientVars, histVars>>

\* Mutant of DetectPublish: the assignment only fills an empty slot, it does
\* not overwrite a frame published before.
DetectPublishKeepsFirst ==
    /\ detPc = "publish"
    /\ processed_frame' = IF processed_frame = None THEN Copy(dframe) ELSE processed_frame
    /\ published' = Append(published, Copy(dframe))
    /\ peeks' = {}
    /\ Release("detect")
    /\ detPc' = "acquire"
    /\ UNCHANGED <<dframe>>
    /\ UNCHANGED <<frame_queue, captureVars, clientVars, lastPut, taken>>

\* processed_frame = frame.copy(); then the with block's exit releases the
\* lock; back to the top of the loop
DetectPublish ==
    /\ detPc = "publish"
    /\ processed_frame' = Copy(dframe)
    /\ published' = Append(published, Copy(dframe))
    /\ peeks' = {}
    /\ Release("detect")
    /\ detPc' = "acquire"
    /\ UNCHANGED <<dframe>>
    /\ UNCHANGED <<frame_queue, captureVars, clientVars, lastPut, taken>>

Detect ==
    \/ DetectAcquire
    \/ DetectEmpty
    \/ DetectTake
    \/ DetectInferOk
    \/ DetectInferRaise
    \/ DetectAcquirePub
    \/ DetectPublish

\* ------------------------------------------- video_feed / generate_frames
\* GET /video_feed: Response(generate_frames(), ...); the server starts
\* iterating the generator.
ClientConnect(c) ==
    /\ cpc[c] = "idle"
    /\ cpc' = [cpc EXCEPT ![c] = "acquire"]
    /\ UNCHANGED <<buffer, sent>>
    /\ UNCHANGED <<frame_queue, processed_frame, lock, captureVars, detectVars, histVars>>

\* with lock:   (entering, line 80)
ClientAcquire(c) ==
    /\ cpc[c] = "acquire"
    /\ Acquire(c)
    /\ cpc' = [cpc EXCEPT ![c] = "check"]
    /\ UNCHANGED <<buffer, sent>>
    /\ UNCHANGED <<frame_queue, processed_frame, captureVars, detectVars, histVars>>

\* Mutant of ClientNone: the None test is missing, the empty slot is encoded
\* and sent like a frame.
ClientNoneEncodes(c) ==
    /\ cpc[c] = "check"
    /\ processed_frame = None
    /\ buffer' = [buffer EXCEPT ![c] = Encode(processed_frame)]
    /\ Release(c)
    /\ cpc' = [cpc EXCEPT ![c] = "yield"]
    /\ UNCHANGED <<sent>>
    /\ UNCHANGED <<frame_queue, processed_frame, captureVars, detectVars, histVars>>

\* if processed_frame is None: continue
\* -- `continue` leaves the with block, which releases the lock
ClientNone(c) ==
    /\ cpc[c] = "check"
    /\ processed_frame = None
    /\ Release(c)
    /\ cpc' = [cpc EXCEPT ![c] = "acquire"]
    /\ UNCHANGED <<buffer, sent>>
    /\ UNCHANGED <<frame_queue, processed_frame, captureVars, detectVars, histVars>>

\* Mutant of ClientEncode: the read consumes the published frame (the slot is
\* emptied, as a queue get would).
ClientEncodeDrains(c) ==
    /\ cpc[c] = "check"
    /\ processed_frame # None
    /\ buffer' = [buffer EXCEPT ![c] = Encode(processed_frame)]
    /\ processed_frame' = None
    /\ peeks' = peeks \cup {<<c, processed_frame>>}
    /\ Release(c)
    /\ cpc' = [cpc EXCEPT ![c] = "yield"]
    /\ UNCHANGED <<sent>>
    /\ UNCHANGED <<frame_queue, captureVars, detectVars, lastPut, taken, published>>

\* Mutant of ClientEncode: the lock is not released after the encode.
ClientEncodeKeepsLock(c) ==
    /\ cpc[c] = "check"
    /\ lock = c
    /\ processed_frame # None
    /\ buffer' = [buffer EXCEPT ![c] = Encode(processed_frame)]
    /\ peeks' = peeks \cup {<<c, processed_frame>>}
    /\ cpc' = [cpc EXCEPT ![c] = "yield"]
    /\ UNCHANGED <<sent>>
    /\ UNCHANGED <<frame_queue, processed_frame, lock, captureVars, detectVars,
                   lastPut, taken, published>>

\* Mutant of ClientEncode: the frame is encoded on the first read only, later
\* iterations reuse the buffer.
ClientEncodeCached(c) ==
    /\ cpc[c] = "check"
    /\ processed_frame # None
    /\ buffer' = [buffer EXCEPT ![c] =
                     IF buffer[c] = Unset THEN Encode(processed_frame) ELSE buffer[c]]
    /\ peeks' = peeks \cup {<<c, processed_frame>>}
    /\ Release(c)
    /\ cpc' = [cpc EXCEPT ![c] = "yield"]
    /\ UNCHANGED <<sent>>
    /\ UNCHANGED <<frame_queue, processed_frame, captureVars, detectVars,
                   lastPut, taken, published>>

\* _, buffer = cv2.imencode('.jpg', processed_frame)   -- inside the with
\* block, whose exit then releases the lock
ClientEncode(c) ==
    /\ cpc[c] = "check"
    /\ processed_frame # None
    /\ buffer' = [buffer EXCEPT ![c] = Encode(processed_frame)]
    /\ peeks' = peeks \cup {<<c, processed_frame>>}
    /\ Release(c)
    /\ cpc' = [cpc EXCEPT ![c] = "yield"]
    /\ UNCHANGED <<sent>>
    /\ UNCHANGED <<frame_queue, processed_frame, captureVars, detectVars,
                   lastPut, taken, published>>

\* yield (b'--frame\r\n' b'Content-Type: image/jpeg\r\n\r\n' + buffer.tobytes() + b'\r\n')
ClientYield(c) ==
    /\ cpc[c] = "yield"
    /\ sent' = [sent EXCEPT ![c] = Chunk(buffer[c])]
    /\ cpc' = [cpc EXCEPT ![c] = "suspended"]
    /\ UNCHANGED <<buffer>>
    /\ UNCHANGED <<frame_queue, processed_frame, lock, captureVars, detectVars, histVars>>

\* the server wrote the chunk and asks the generator for the next one
ClientResume(c) ==
    /\ cpc[c] = "suspended"
    /\ cpc' = [cpc EXCEPT ![c] = "acquire"]
    /\ UNCHANGED <<buffer, sent>>
    /\ UNCHANGED <<frame_queue, processed_frame, lock, captureVars, detectVars, histVars>>

\* the write to the client failed: the server closes the generator at its yield
ClientDisconnect(c) ==
    /\ cpc[c] = "suspended"
    /\ cpc' = [cpc EXCEPT ![c] = "closed"]
    /\ UNCHANGED <<buffer, sent>>
    /\ UNCHANGED <<frame_queue, processed_frame, lock, captureVars, detectVars, histVars>>

\* the steps the generator takes by itself
ClientRun(c) ==
    \/ ClientAcquire(c)
    \/ ClientNone(c)
    \/ ClientEncode(c)
    \/ ClientYield(c)

\* the steps the client and the server decide
ClientEnv(c) ==
    \/ ClientConnect(c)
    \/ ClientResume(c)
    \/ ClientDisconnect(c)

Next ==
    \/ Capture
    \/ Detect
    \/ \E c \in Clients : ClientRun(c)
    \/ \E c \in Clients : ClientEnv(c)

Spec == Init /\ [][Next]_vars

\* Fair scheduling: a thread that can take a step takes one (every call
\* returns), and a thread waiting for the lock gets it if the lock keeps
\* becoming free.
Fairness ==
    /\ SF_vars(Capture)
    /\ SF_vars(Detect)
    /\ \A c \in Clients : SF_vars(ClientRun(c))

FairSpec == Init /\ [][Next]_vars /\ Fairness

\* Fair scheduling with a camera that delivers a single frame.
OneFrameFair == InitOneFrame /\ [][Next]_vars /\ Fairness

\* ================================================================ claims
Last(seq) == seq[Len(seq)]

\* The step in which the detector's frame_queue.get() returns.
DetectorTakes == detPc = "check" /\ detPc' = "infer"

\* The step in which client c reads processed_frame and encodes it.
ClientReads(c) == cpc[c] = "check" /\ cpc'[c] = "yield"

\* ---- C1
\* Slot overwrite: whatever was written before, a read observes only the
\* frame written last.  frame_queue holds nothing but the frame of the last
\* put and the detector's get returns that frame; processed_frame is the
\* frame of the last publish and a client's read encodes that frame.
C1_LatestOnly ==
    /\ frame_queue # <<>> => frame_queue = <<RawFrame(lastPut)>>
    /\ published # <<>> => processed_frame = Last(published)

C1_ReadsLatest ==
    /\ DetectorTakes => dframe' = RawFrame(lastPut)
    /\ \A c \in Clients :
          ClientReads(c) => published # <<>> /\ buffer'[c] = Encode(Last(published))

C1_SlotOverwrite == []C1_LatestOnly /\ [][C1_ReadsLatest]_vars

\* A third frame was put over an unread second one and the detector then took
\* the third, while a client has read a frame published over an earlier one.
C1_Witness ==
    /\ lastPut = 3
    /\ taken = <<1, 3>>
    /\ Len(published) = 2
    /\ \E c \in Clients : cpc[c] = "yield" /\ buffer[c] = Encode(Last(published))

\* ---- C2
\* At-most-one residency: frame_queue never holds more than one frame, and a
\* detector take (always the next queue operation after a capture put)
\* returns the frame of that put and leaves frame_queue empty.
C2_TakeAfterPut ==
    DetectorTakes =>
        /\ frame_queue = <<RawFrame(lastPut)>>
        /\ dframe' = RawFrame(lastPut)
        /\ frame_queue' = <<>>

C2_AtMostOne == [](Len(frame_queue) <= 1) /\ [][C2_TakeAfterPut]_vars

\* The detector has taken the frame of the latest put and the queue is empty.
C2_Witness ==
    /\ detPc = "infer"
    /\ dframe = RawFrame(lastPut)
    /\ lastPut = 2
    /\ frame_queue = <<>>

\* ---- C3
\* No captured frame is returned twice by the detector's frame_queue.get().
C3_NoFrameTakenTwice ==
    \A i, j \in 1..Len(taken) : i # j => taken[i] # taken[j]

\* The detector has taken every frame the camera delivered.
C3_Witness == Len(taken) = MaxFrames

\* ---- C4
\* Resilience to inference faults: process_frames does not terminate when
\* model(frame) raises.
C4_DetectorSurvivesFault == detPc # "terminated"

\* ---- C5
\* Reconnect convergence: when the opens of one connecting phase fail N times
\* and then succeed, the connection is up after exactly N+1 attempts and N
\* delays: every failed attempt is followed by exactly one delay before the
\* next attempt, and no delay follows the successful one.
C5_ReconnectConvergence ==
    /\ capPc = "open" => opens = fails /\ sleeps = fails
    /\ capPc = "sleep" => opens = fails /\ sleeps = fails - 1
    /\ cap = "opened" => opens = fails + 1 /\ sleeps = fails

\* Connected at start-up after two failed attempts, about to read.
C5_Witness ==
    /\ cap = "opened"
    /\ capPc = "read"
    /\ delivered = 0
    /\ fails = 2
    /\ opens = 3
    /\ sleeps = 2

\* ---- C6
\* Read-failure recovery: capture_frames reads only from an open connection;
\* a failed read leads to cap.release() and writes nothing to frame_queue;
\* after the release the next camera operation is a fresh open attempt; no
\* None frame is ever put.
C6_ReadsOpenConnection ==
    /\ capPc = "read" => cap = "opened"
    /\ capPc \in {"acquire", "put"} => cap = "opened" /\ cframe # None
    /\ capPc = "release" => cframe = None
    /\ \A i \in 1..Len(frame_queue) : frame_queue[i] # None

C6_FailureStep ==
    /\ (capPc = "read" /\ capPc' # "read" /\ delivered' = delivered) =>
           capPc' = "release" /\ UNCHANGED <<frame_queue, lastPut>>
    /\ (capPc = "release" /\ capPc' # "release") =>
           capPc' = "open" /\ cap' = "released" /\ UNCHANGED <<frame_queue, lastPut>>
    /\ (capPc = "open" /\ capPc' # "open") =>
           cap # "opened" /\ cap' \in {"opened", "failed"}
    /\ capPc' \in {"open", "sleep", "read", "release", "acquire", "put"}

C6_ReadFailureRecovery == []C6_ReadsOpenConnection /\ [][C6_FailureStep]_vars

\* A read failed after two frames: the connection has been released and the
\* capture thread is about to open a new one; frame 2 is still in the queue.
C6_Witness ==
    /\ cap = "released"
    /\ capPc = "open"
    /\ delivered = 2
    /\ frame_queue = <<RawFrame(2)>>

\* ---- C7
\* Scenario A: the frames the detector takes are frames the camera delivered,
\* and once the camera has delivered its last frame (F3) the detector, under
\* fair scheduling, eventually takes that frame and takes none after it.
C7_TakenWereDelivered ==
    \A i \in 1..Len(taken) : taken[i] \in 1..delivered

C7_LastFrameTaken ==
    <>(delivered = camFrames) => <>[](taken # <<>> /\ Last(taken) = camFrames)

C7_ScenarioA == []C7_TakenWereDelivered /\ C7_LastFrameTaken

\* ---- C8
\* Scenario B: while processed_frame is None no chunk has been yielded to any
\* client, and no client's generator has ended: each is idle or polling.
C8_NoChunkBeforePublish ==
    processed_frame = None =>
        \A c \in Clients :
            /\ sent[c] = NoChunk
            /\ buffer[c] = Unset
            /\ cpc[c] \in {"idle", "acquire", "check"}

\* Nothing published, one client inside the with block seeing None while the
\* other polls for the lock.
C8_Witness ==
    /\ processed_frame = None
    /\ lock = "c1"
    /\ cpc["c1"] = "check"
    /\ cpc["c2"] = "acquire"
    /\ delivered = MaxFrames

\* ---- C9
\* Scenario C: with exactly one frame published and no further publish, every
\* chunk a client has been sent is the encoding of that frame, and under fair
\* scheduling each client that connects is eventually sent that chunk.
C9_OnlyThatFrame ==
    Len(published) = 1 =>
        \A c \in Clients : sent[c] \in {NoChunk, Chunk(Encode(published[1]))}

C9_BothReceive ==
    \A c \in Clients :
        (<>[](Len(published) = 1) /\ <>(cpc[c] # "idle")) =>
            <>(Len(published) = 1 /\ sent[c] = Chunk(Encode(published[1])))

C9_ScenarioC == []C9_OnlyThatFrame /\ C9_BothReceive

\* One frame published, both clients connected and both sent its encoding.
C9_Witness ==
    /\ Len(published) = 1
    /\ \A c \in Clients : sent[c] = Chunk(Encode(published[1]))
    /\ \A c \in Clients : cpc[c] = "suspended"

\* ---- C10
\* Non-destructive peek: all client reads of processed_frame made since the
\* last publish observed the same frame, the one still in the slot, and a
\* client read changes neither processed_frame nor frame_queue.
C10_SameFrame ==
    \A p \in peeks : p[2] = processed_frame

C10_ReadChangesNothing ==
    \A c \in Clients : ClientReads(c) => UNCHANGED <<processed_frame, frame_queue>>

C10_NonDestructivePeek == []C10_SameFrame /\ [][C10_ReadChangesNothing]_vars

\* Both clients have read the slot since the last publish, which was not the
\* first one.
C10_Witness ==
    /\ Cardinality(peeks) = 2
    /\ Len(published) = 2
    /\ sent["c1"] = Chunk(Encode(Last(published)))
    /\ sent["c2"] = Chunk(Encode(Last(published)))

\* The step in which client c's generator is closed at its yield.
ClientCloses(c) == cpc[c] = "suspended" /\ cpc'[c] = "closed"

\* ---- C11
\* Client disconnect isolation: the step that ends one client's generator
\* happens with the lock not held by that client and changes nothing but that
\* client's position; a closed generator never holds the lock, and with the
\* lock free the capture thread, a live detection thread and every running
\* generator of another client can take their next step.
C11_CloseStep ==
    \A c \in Clients :
        ClientCloses(c) =>
            /\ lock # c
            /\ UNCHANGED <<lock, frame_queue, processed_frame, captureVars, detectVars>>
            /\ UNCHANGED <<buffer, sent, histVars>>
            /\ \A d \in Clients \ {c} : cpc'[d] = cpc[d]

C11_OthersGoOn ==
    \A c \in Clients :
        cpc[c] = "closed" =>
            /\ lock # c
            /\ lock = "free" =>
                  /\ ENABLED Capture
                  /\ detPc # "terminated" => ENABLED Detect
                  /\ \A d \in Clients \ {c} :
                        cpc[d] \in {"acquire", "yield"} => ENABLED ClientRun(d)

C11_DisconnectIsolation == []C11_OthersGoOn /\ [][C11_CloseStep]_vars

\* One client was closed after the first published frame; the pipeline went
\* on, and the other client has since been sent the second published frame.
C11_Witness ==
    /\ cpc["c1"] = "closed"
    /\ Len(published) = 2
    /\ sent["c1"] = Chunk(Encode(published[1]))
    /\ cpc["c2"] = "suspended"
    /\ sent["c2"] = Chunk(Encode(published[2]))

\* The camera source is failing: the last camera operation of capture_frames
\* was a failed read or a failed open, and no open has succeeded since.
SourceFailing ==
    \/ capPc \in {"release", "sleep"}
    \/ capPc = "open" /\ cap \in {"failed", "released"}

\* The step in which a chunk is yielded to client c.
ClientYields(c) == cpc[c] = "yield" /\ cpc'[c] = "suspended"

\* ---- C12
\* As claimed: while the camera source keeps failing no chunk is emitted to
\* any client.
C12_NoChunkStep ==
    \A c \in Clients : ClientYields(c) => ~SourceFailing

C12_NoChunkWhileFailing == [][C12_NoChunkStep]_vars

\* As amended: a source that has never delivered a frame yields no chunk and
\* leaves every connection open and polling; while the source keeps failing
\* no new frame enters the pipeline, and a chunk emitted meanwhile carries a
\* frame delivered before the failure and published since.
C12_NeverDelivered ==
    delivered = 0 =>
        \A c \in Clients :
            sent[c] = NoChunk /\ cpc[c] \in {"idle", "acquire", "check"}

C12_FailingStep ==
    /\ (SourceFailing /\ SourceFailing') =>
           UNCHANGED <<delivered, lastPut>>
    /\ \A c \in Clients :
           (ClientYields(c) /\ SourceFailing) =>
               \E i \in 1..Len(published) :
                   /\ published[i].id <= delivered
                   /\ sent'[c] = Chunk(Encode(published[i]))

C12_SustainedFailure == []C12_NeverDelivered /\ [][C12_FailingStep]_vars

\* The source delivered one frame and has failed since (a failed read, then
\* failed opens); a client holds a chunk of the published frame.
C12_Witness ==
    /\ SourceFailing
    /\ capPc = "sleep"
    /\ delivered = 1
    /\ fails = 2
    /\ \E c \in Clients :
          cpc[c] = "suspended" /\ sent[c] = Chunk(Encode(processed_frame))

\* The threads, and whether a thread is inside a slot access (a with block).
Threads == {"capture", "detect"} \cup Clients

InSlotAccess(t) ==
    \/ t = "capture" /\ capPc = "put"
    \/ t = "detect" /\ detPc \in {"check", "publish"}
    \/ t \in Clients /\ cpc[t] = "check"

\* ---- C13
\* Mutual exclusion over both slots: a thread is inside a slot access exactly
\* when it holds the lock, so at most one thread is inside one; and every
\* step that reads or writes frame_queue or processed_frame is taken by the
\* thread that holds the lock.
C13_OneInside ==
    /\ \A t \in Threads : InSlotAccess(t) <=> lock = t
    /\ Cardinality({t \in Threads : InSlotAccess(t)}) <= 1

C13_AccessStep ==
    /\ frame_queue' # frame_queue => lock \in {"capture", "detect"}
    /\ processed_frame' # processed_frame => lock = "detect"
    /\ (detPc = "check" /\ detPc' # "check") => lock = "detect"
    /\ (capPc = "put" /\ capPc' # "put") => lock = "capture"
    /\ \A c \in Clients : (cpc[c] = "check" /\ cpc'[c] # "check") => lock = c

C13_MutualExclusion == []C13_OneInside /\ [][C13_AccessStep]_vars

\* A client is inside its read of processed_frame while the capture thread
\* (with a frame to put) and the detection thread (with a frame to publish)
\* wait for the lock.
C13_Witness ==
    /\ lock = "c1"
    /\ cpc["c1"] = "check"
    /\ capPc = "acquire"
    /\ detPc = "acquire_pub"
    /\ cpc["c2"] = "acquire"

\* ---- C14
\* Only slot access is exclusive: the inference call of process_frames and
\* the image encoding of generate_frames run without the lock held by the
\* thread that makes them.
C14_HeavyCallStep ==
    /\ (detPc = "infer" /\ detPc' # "infer") => lock # "detect"
    /\ \A c \in Clients : buffer'[c] # buffer[c] => lock # c

C14_OnlySlotAccessExclusive == [][C14_HeavyCallStep]_vars

\* ---- C15
\* No starvation by busy-polling: the detector's and each client's "nothing
\* available" path leaves the lock free before it polls again, and under fair
\* scheduling every frame capture_frames has read is eventually written into
\* frame_queue, whatever the polling detector and clients do.
C15_EmptyPathStep ==
    /\ (detPc = "check" /\ detPc' = "acquire") => lock' = "free"
    /\ \A c \in Clients : (cpc[c] = "check" /\ cpc'[c] = "acquire") => lock' = "free"

C15_FrameWritten ==
    \A n \in 1..MaxFrames :
        (capPc = "acquire" /\ cframe.id = n) ~> (lastPut = n)

C15_NoStarvation == [][C15_EmptyPathStep]_vars /\ C15_FrameWritten

\* The frame read by the capture thread has been written while both clients
\* were polling an empty published slot and the detector an empty queue.
C15_Witness ==
    /\ lastPut = 1
    /\ frame_queue = <<RawFrame(1)>>
    /\ processed_frame = None
    /\ lock = "c1"
    /\ cpc["c1"] = "check"
    /\ cpc["c2"] = "acquire"
    /\ detPc = "acquire"
    /\ taken = <<>>

\* ---- C16
\* Freshest frame at read time: a client's read encodes the frame published
\* last before that read, the buffer is not touched between the read and the
\* yield, and the chunk yielded is built from that buffer; so every chunk
\* carries the frame that was the latest when its client read the slot.
C16_ChunkStep ==
    \A c \in Clients :
        /\ ClientReads(c) =>
               /\ published # <<>>
               /\ processed_frame = Last(published)
               /\ buffer'[c] = Encode(processed_frame)
        /\ (cpc[c] = "yield" /\ cpc'[c] = "yield") => buffer'[c] = buffer[c]
        /\ ClientYields(c) => sent'[c] = Chunk(buffer[c])

C16_FreshestAtRead == [][C16_ChunkStep]_vars

\* A slow client still holds the chunk of the first published frame; the
\* other client, reading after the third publish, was sent the third frame.
C16_Witness ==
    /\ Len(published) = 3
    /\ cpc["c1"] = "suspended"
    /\ sent["c1"] = Chunk(Encode(published[1]))
    /\ cpc["c2"] = "suspended"
    /\ sent["c2"] = Chunk(Encode(published[3]))

\* ---- C17
\* As claimed: between two consecutive chunks emitted to one client there is
\* a publish.  Every frame is published once, so a client whose previous
\* chunk carries the frame published last has seen no publish since that
\* chunk was read, let alone since it was emitted: the claim forbids a
\* further chunk to that client in such a state.
C17_PublishBetweenStep ==
    \A c \in Clients :
        (ClientYields(c) /\ sent[c] # NoChunk) =>
            sent[c] # Chunk(Encode(Last(published)))

C17_ChunksFollowPublishes == [][C17_PublishBetweenStep]_vars

\* As amended: every chunk carries a frame that has been published, and a
\* chunk that differs from the client's previous chunk carries a frame
\* published later than the previous one; the same frame may be sent again.
C17_PublishedFramesStep ==
    \A c \in Clients :
        ClientYields(c) =>
            \E i \in 1..Len(published) :
                /\ sent'[c] = Chunk(Encode(published[i]))
                /\ (sent[c] # NoChunk /\ sent'[c] # sent[c]) =>
                       \E j \in 1..(i - 1) : sent[c] = Chunk(Encode(published[j]))

C17_ChunksArePublishedFrames == [][C17_PublishedFramesStep]_vars

\* One frame has been published; a client that was already sent it has read
\* it again and is about to be sent it a second time.
C17_Witness ==
    /\ Len(published) = 1
    /\ cpc["c1"] = "yield"
    /\ sent["c1"] = Chunk(Encode(published[1]))
    /\ buffer["c1"] = Encode(published[1])

\* ---- C18
\* No blocking while holding the lock: whoever holds the lock can take its
\* next step (the put finds room after the discard, the get finds a frame),
\* a put leaves exactly the new frame in the queue, a get is made on a
\* non-empty queue, and some thread can always take a step.
C18_HolderCanStep ==
    /\ lock = "capture" => ENABLED CapturePut
    /\ lock = "detect" => ENABLED (DetectEmpty \/ DetectTake \/ DetectPublish)
    /\ \A c \in Clients : lock = c => ENABLED (ClientNone(c) \/ ClientEncode(c))
    /\ ENABLED Next

C18_QueueStep ==
    /\ (capPc = "put" /\ capPc' # "put") => frame_queue' = <<cframe>>
    /\ DetectorTakes => ~QEmpty(frame_queue)

C18_NoBlockingUnderLock == []C18_HolderCanStep /\ [][C18_QueueStep]_vars

\* The capture thread holds the lock with a new frame while the queue is
\* still full of the previous one.
C18_Witness ==
    /\ lock = "capture"
    /\ capPc = "put"
    /\ frame_queue = <<RawFrame(1)>>
    /\ cframe = RawFrame(2)

\* The capture number of the frame a chunk carries.
ChunkFrameId(ch) == ch.body[2]

\* ---- C19
\* Order preservation: the frames the detector takes are strictly increasing
\* in capture order, so are the frames published (each a frame taken), and a
\* client is never sent an older frame after a newer one.
C19_TakenInOrder ==
    /\ \A i, j \in 1..Len(taken) : i < j => taken[i] < taken[j]
    /\ \A i, j \in 1..Len(published) : i < j => published[i].id < published[j].id
    /\ \A i \in 1..Len(published) : \E k \in 1..Len(taken) : published[i].id = taken[k]

C19_ClientStep ==
    \A c \in Clients :
        (ClientYields(c) /\ sent[c] # NoChunk) =>
            ChunkFrameId(sent'[c]) >= ChunkFrameId(sent[c])

C19_OrderPreserved == []C19_TakenInOrder /\ [][C19_ClientStep]_vars

\* Frame 2 was skipped: the detector took and published frames 1 and 3, and a
\* client that had been sent frame 1 has now been sent frame 3.
C19_Witness ==
    /\ taken = <<1, 3>>
    /\ Len(published) = 2
    /\ cpc["c2"] = "suspended"
    /\ ChunkFrameId(sent["c2"]) = 3
    /\ ChunkFrameId(sent["c1"]) = 1

\* ---- C20
\* Published slot is never emptied: processed_frame is None exactly until the
\* first publish; a step that changes it is the detector's assignment of
\* line 69, made with the lock held; and no step takes it back to None.
C20_NoneUntilPublish ==
    processed_frame = None <=> published = <<>>

C20_WriteStep ==
    /\ processed_frame # None => processed_frame' # None
    /\ processed_frame' # processed_frame =>
           /\ detPc = "publish"
           /\ lock = "detect"
           /\ processed_frame' = Copy(dframe)

C20_NeverEmptied == []C20_NoneUntilPublish /\ [][C20_WriteStep]_vars

\* A frame is still published after the detection thread has ended, the
\* camera has failed and one client has gone; the other client reads it.
C20_Witness ==
    /\ processed_frame # None
    /\ detPc = "terminated"
    /\ capPc = "sleep"
    /\ cpc["c1"] = "closed"
    /\ cpc["c2"] = "check"
====
